---- MODULE Spec2Model ----
(***************************************************************************)
(* facefusion: the inference pool registry (inference_manager.py) and the  *)
(* webcam streaming pipeline (uis/components/webcam.py).                   *)
(***************************************************************************)
EXTENDS Integers, Sequences, FiniteSets, TLC

(* ---------------------------------------------------------------------- *)
(* Bounds                                                                   *)
(* ---------------------------------------------------------------------- *)
\* number of threads that call into the inference manager
NumThreads == 2
\* number of handle sets create_inference_pool may build in one run
MaxCreate == 2
\* number of frames the capture device delivers in one session
MaxFrames == 3
\* largest execution_thread_count the session is started with
MaxWorkers == 2
\* longest configured execution provider list
MaxProviders == 2
\* most steps a job file found in the jobs directory holds
MaxSteps == 1
\* number of predictor sessions built, and of clear_predictor calls, in one run
MaxSessions == 2

(* ---------------------------------------------------------------------- *)
(* Inference pool registry: inference_manager.py                            *)
(* ---------------------------------------------------------------------- *)
\* Python None as a registry entry or return value (no handle set has id 0)
None == [ id |-> 0, key |-> "None", models |-> {} ]
Threads == 1 .. NumThreads
\* the two keys of INFERENCE_POOLS
Contexts == { "cli", "ui" }
\* model_context values (module names used as registry keys)
ModelContexts == { "face_swapper", "age_modifier" }
\* names a DownloadSet may hold; model_sources ranges over its subsets,
\* the empty DownloadSet included
ModelNames == { "model" }

VARIABLES
  INFERENCE_POOLS, \* [context -> [model_context -> handle set or None]]
  lockOwner,       \* thread inside `with thread_lock()`, or 0
  checking,        \* process_manager.is_checking()
  calls,           \* per thread: the get_inference_pool call it is running
  created          \* every handle set create_inference_pool has returned

poolVars == << INFERENCE_POOLS, lockOwner, checking, calls, created >>

\* the streaming session (uis/components/webcam.py)
VARIABLES
  WEBCAM_CAPTURE,  \* the module global: "None" or "capture"
  opened,          \* isOpened() of the cv2.VideoCapture object of the session
  stream,          \* the ffmpeg process of open_stream: "None" or "open"
  webcam_mode,     \* the mode start was called with
  workers,         \* facefusion.globals.execution_thread_count
  pc,              \* where start / multi_process_capture stands
  futures,         \* the list `futures`: submitted, not yet collected units
  scan,            \* index of the future the list comprehension tests next
  doneList,        \* the futures the comprehension has found done
  deque_capture_frames,
  captured,        \* frames read from the device (frame n is the n-th read)
  haltedAt,        \* the frame analyse_stream returned True on, or 0
  emitted,         \* frames handed to the sink, in order
  dropped,         \* frames whose write to the ffmpeg pipe raised
  processed,       \* frames whose process_stream_frame unit has completed
  stopRequested,   \* stop() has been called during the session
  openFailed       \* the capture device did not open at start

streamVars ==
  << WEBCAM_CAPTURE, opened, stream, webcam_mode, workers, pc, futures, scan,
     doneList, deque_capture_frames, captured, haltedAt, emitted, dropped,
     processed, stopRequested, openFailed >>

\* the execution provider resolver (inference_manager.find_execution_providers)
VARIABLES
  coreml,              \* has_execution_provider('coreml') in this runtime
  execution_providers, \* state_manager.get_item('execution_providers')
  resolved             \* the last find_execution_providers call and its result

providerVars == << coreml, execution_providers, resolved >>

\* the job files (job_manager.py)
VARIABLES
  job_files,   \* [status directory -> [job id -> the file or NoFile]]
  job_return   \* the last job_manager call, what it returned and found

jobVars == << job_files, job_return >>

\* the content predictor (predictor.py)
VARIABLES
  PREDICTOR,        \* the module global: a session id, or 0 for None
  THREAD_LOCK,      \* thread inside `with THREAD_LOCK`, or 0
  predictor_calls,  \* per thread: the get_predictor call it is running
  sessions,         \* InferenceSession objects built so far
  clears            \* clear_predictor calls so far

predictorVars == << PREDICTOR, THREAD_LOCK, predictor_calls, sessions, clears >>

otherVars == << providerVars, jobVars, predictorVars >>

vars == << poolVars, streamVars, otherVars >>

\* detect_app_context(): what the caller's stack says; a thread serves one
\* front end for its whole life (odd threads the command line, even ones the ui)
detect_app_context(t) == IF t % 2 = 1 THEN "cli" ELSE "ui"

OtherContext(c) == IF c = "cli" THEN "ui" ELSE "cli"

\* Python truth value of a registry entry: None is false and so is an
\* empty dict (an InferencePool built from an empty DownloadSet)
Truthy(p) == p # None /\ p.models # {}

\* create_inference_pool: one session per entry of model_sources; `id` is
\* the identity of the new dict object
create_inference_pool(id, key, model_sources) ==
  [ id |-> id, key |-> key, models |-> model_sources ]

\* a thread outside get_inference_pool
IdleCall ==
  [ pc |-> "idle", ctx |-> "cli", key |-> "face_swapper",
    own0 |-> None, oth0 |-> None, didCreate |-> FALSE ]

InCall(t) == calls[t].pc # "idle"

InitPool ==
  /\ INFERENCE_POOLS = [ c \in Contexts |-> [ k \in ModelContexts |-> None ] ]
  /\ lockOwner = 0
  /\ checking = FALSE
  /\ calls = [ t \in Threads |-> IdleCall ]
  /\ created = {}

\* a thread enters get_inference_pool(model_context, model_sources)
Call(t, k) ==
  /\ ~InCall(t)
  /\ calls' = [ calls EXCEPT ![t] =
                  [ IdleCall EXCEPT !.pc = "l24", !.ctx = detect_app_context(t), !.key = k ] ]
  /\ UNCHANGED << otherVars, streamVars, INFERENCE_POOLS, lockOwner, checking, created >>

\* a lock that lets a second thread in
AcquireUnguarded(t) ==
  /\ calls[t].pc = "l24"
  /\ lockOwner' = t
  /\ calls' = [ calls EXCEPT ![t].pc = "l25" ]
  /\ UNCHANGED << otherVars, streamVars, INFERENCE_POOLS, checking, created >>

\* line 24: with thread_lock()
Acquire(t) ==
  /\ calls[t].pc = "l24"
  /\ lockOwner = 0
  /\ lockOwner' = t
  /\ calls' = [ calls EXCEPT ![t].pc = "l25" ]
  /\ UNCHANGED << otherVars, streamVars, INFERENCE_POOLS, checking, created >>

\* a poll that does not look at the flag
PollIgnoringFlag(t) ==
  /\ calls[t].pc = "l25"
  /\ calls' = [ calls EXCEPT ![t].pc = "l29" ]
  /\ UNCHANGED << otherVars, streamVars, INFERENCE_POOLS, lockOwner, checking, created >>

\* lines 25-27: the poll leaves the loop on an observation of a clear flag
\* (while the flag is set the thread sleeps holding the lock)
Poll(t) ==
  /\ calls[t].pc = "l25"
  /\ ~checking
  /\ calls' = [ calls EXCEPT ![t].pc = "l29" ]
  /\ UNCHANGED << otherVars, streamVars, INFERENCE_POOLS, lockOwner, checking, created >>

\* lines 29 / 31: the truth test on the other context's entry
CheckOther(t) ==
  /\ calls[t].pc = "l29"
  /\ LET c == calls[t].ctx
         k == calls[t].key
     IN calls' = [ calls EXCEPT
                     ![t].pc = IF Truthy(INFERENCE_POOLS[OtherContext(c)][k])
                               THEN "l30" ELSE "l33",
                     ![t].own0 = INFERENCE_POOLS[c][k],
                     ![t].oth0 = INFERENCE_POOLS[OtherContext(c)][k] ]
  /\ UNCHANGED << otherVars, streamVars, INFERENCE_POOLS, lockOwner, checking, created >>

\* lines 30 / 32: store the other context's entry (read again) under this one
Adopt(t) ==
  /\ calls[t].pc = "l30"
  /\ LET c == calls[t].ctx
         k == calls[t].key
     IN INFERENCE_POOLS' = [ INFERENCE_POOLS EXCEPT
                               ![c][k] = INFERENCE_POOLS[OtherContext(c)][k] ]
  /\ calls' = [ calls EXCEPT ![t].pc = "l33" ]
  /\ UNCHANGED << otherVars, streamVars, lockOwner, checking, created >>

\* line 33: is this context's entry None
CheckOwn(t) ==
  /\ calls[t].pc = "l33"
  /\ calls' = [ calls EXCEPT
                  ![t].pc = IF INFERENCE_POOLS[calls[t].ctx][calls[t].key] = None
                            THEN "l34" ELSE "l36" ]
  /\ UNCHANGED << otherVars, streamVars, INFERENCE_POOLS, lockOwner, checking, created >>

\* line 34: create_inference_pool and the store of its result; model_sources,
\* the caller's argument, is read here and nowhere else
Create(t, model_sources) ==
  /\ calls[t].pc = "l34"
  /\ Cardinality(created) < MaxCreate
  /\ LET p == create_inference_pool(Cardinality(created) + 1, calls[t].key, model_sources)
     IN /\ INFERENCE_POOLS' = [ INFERENCE_POOLS EXCEPT ![calls[t].ctx][calls[t].key] = p ]
        /\ created' = created \cup { p }
  /\ calls' = [ calls EXCEPT ![t].pc = "l36", ![t].didCreate = TRUE ]
  /\ UNCHANGED << otherVars, streamVars, lockOwner, checking >>

\* line 36: what the return statement evaluates, the entry as it is now
ReturnValue(t) == INFERENCE_POOLS[calls[t].ctx][calls[t].key]

\* line 36: return; leaving the with block frees the lock and the call's
\* frame is gone
Return(t) ==
  /\ calls[t].pc = "l36"
  /\ calls' = [ calls EXCEPT ![t] = IdleCall ]
  /\ lockOwner' = 0
  /\ UNCHANGED << otherVars, streamVars, INFERENCE_POOLS, checking, created >>

\* a release that drops the key in every context
ClearedEverywhere(pools, c, k) ==
  [ x \in Contexts |-> [ pools[x] EXCEPT ![k] = None ] ]

\* the registry after clear_inference_pool(model_context) in app context c
ClearedPools(pools, c, k) == [ pools EXCEPT ![c][k] = None ]

\* lines 47-51: clear_inference_pool(model_context) run in app context c by
\* any thread of the process; it takes no lock
Clear(c, k) ==
  /\ INFERENCE_POOLS' = ClearedPools(INFERENCE_POOLS, c, k)
  \* a call in flight on the same entry no longer has the entry it first saw
  /\ calls' = [ u \in Threads |->
                  IF InCall(u) /\ calls[u].ctx = c /\ calls[u].key = k
                  THEN [ calls[u] EXCEPT !.own0 = None ] ELSE calls[u] ]
  /\ UNCHANGED << otherVars, streamVars, lockOwner, checking, created >>

\* process_manager.check() / process_manager.end(): the collaborator sets
\* and clears the verification flag at any moment
SetChecking ==
  /\ ~checking
  /\ checking' = TRUE
  /\ UNCHANGED << otherVars, streamVars, INFERENCE_POOLS, lockOwner, calls, created >>

EndChecking ==
  /\ checking
  /\ checking' = FALSE
  /\ UNCHANGED << otherVars, streamVars, INFERENCE_POOLS, lockOwner, calls, created >>

(* ---------------------------------------------------------------------- *)
(* Webcam streaming session: uis/components/webcam.py                       *)
(* ---------------------------------------------------------------------- *)
\* webcam_mode values; 'udp' and 'v4l2' feed an external ffmpeg process
WebcamModes == { "inline", "udp", "v4l2" }
ExternalModes == { "udp", "v4l2" }

\* frames handed to the worker pool: every frame read, but the one the
\* content check halted on
submitted == IF haltedAt = 0 THEN captured ELSE captured - 1

SeqToSet(q) == { q[i] : i \in 1 .. Len(q) }

InitStream ==
  /\ WEBCAM_CAPTURE = "None"
  /\ opened = FALSE
  /\ stream = "None"
  /\ webcam_mode = "inline"
  /\ workers = 1
  /\ pc = "idle"
  /\ futures = << >>
  /\ scan = 1
  /\ doneList = << >>
  /\ deque_capture_frames = << >>
  /\ captured = 0
  /\ haltedAt = 0
  /\ emitted = << >>
  /\ dropped = {}
  /\ processed = {}
  /\ stopRequested = FALSE
  /\ openFailed = FALSE

\* lines 29-39: get_webcam_capture; device_opens is whether the new
\* cv2.VideoCapture(0) reports isOpened()
get_webcam_capture(global, device_opens) ==
  IF global = "None"
  THEN ( IF device_opens THEN "capture" ELSE "None" )
  ELSE global

\* a clear that forgets to release the device
clear_without_release ==
  /\ opened' = opened
  /\ WEBCAM_CAPTURE' = "None"

\* lines 42-47: clear_webcam_capture releases the device and drops the global
clear_webcam_capture ==
  /\ opened' = ( IF WEBCAM_CAPTURE # "None" THEN FALSE ELSE opened )
  /\ WEBCAM_CAPTURE' = "None"

\* lines 91-105: start up to the call of multi_process_capture; the sink
\* process is launched before the capture device is opened
Start(mode, thread_count, device_opens) ==
  /\ pc = "idle"
  /\ webcam_mode' = mode
  /\ workers' = thread_count
  /\ stream' = ( IF mode \in ExternalModes THEN "open" ELSE "None" )
  /\ WEBCAM_CAPTURE' = get_webcam_capture(WEBCAM_CAPTURE, device_opens)
  /\ opened' = ( WEBCAM_CAPTURE' # "None" )
  /\ openFailed' = ( WEBCAM_CAPTURE' = "None" )
  /\ pc' = ( IF WEBCAM_CAPTURE' # "None" THEN "loop" ELSE "done" )
  /\ UNCHANGED << otherVars, poolVars, futures, scan, doneList, deque_capture_frames, captured,
                  haltedAt, emitted, dropped, processed, stopRequested >>

\* line 122: the loop test on the session's capture object
Loop ==
  /\ pc = "loop"
  /\ opened => captured < MaxFrames
  /\ pc' = ( IF opened THEN "read" ELSE "shutdown" )
  /\ UNCHANGED << otherVars, poolVars, WEBCAM_CAPTURE, opened, stream, webcam_mode, workers, futures,
                  scan, doneList, deque_capture_frames, captured, haltedAt,
                  emitted, dropped, processed, stopRequested, openFailed >>

\* lines 123-127: read a frame, ask the content check, and either return
\* from the generator or submit the frame and start the scan of `futures`
ReadFrame(halt) ==
  /\ pc = "read"
  /\ captured' = captured + 1
  /\ IF halt
     THEN /\ haltedAt' = captured + 1
          /\ pc' = "shutdown"
          /\ UNCHANGED futures
     ELSE /\ haltedAt' = haltedAt
          /\ pc' = "scan"
          /\ futures' = Append(futures, [ seq |-> captured + 1, done |-> FALSE ])
  /\ scan' = 1
  /\ doneList' = << >>
  /\ UNCHANGED << otherVars, poolVars, WEBCAM_CAPTURE, opened, stream, webcam_mode, workers,
                  deque_capture_frames, emitted, dropped, processed,
                  stopRequested, openFailed >>

\* the units a pool of n threads is running: the first n unfinished ones,
\* in submission order (the executor's queue is first in, first out)
Unfinished(fs) == { i \in 1 .. Len(fs) : ~fs[i].done }
Running(fs, n) ==
  { i \in Unfinished(fs) : Cardinality({ j \in Unfinished(fs) : j < i }) < n }

\* lines 153-163: a worker thread finishes process_stream_frame
Complete(i) ==
  /\ i \in Running(futures, workers)
  /\ futures' = [ futures EXCEPT ![i].done = TRUE ]
  /\ processed' = processed \cup { futures[i].seq }
  /\ UNCHANGED << otherVars, poolVars, WEBCAM_CAPTURE, opened, stream, webcam_mode, workers, pc, scan,
                  doneList, deque_capture_frames, captured, haltedAt, emitted,
                  dropped, stopRequested, openFailed >>

\* some worker thread finishes its unit
Work == \E i \in 1 .. Len(futures) : Complete(i)

\* line 128: the list comprehension tests one future's done()
ScanStep ==
  /\ pc = "scan"
  /\ scan <= Len(futures)
  /\ doneList' = ( IF futures[scan].done THEN Append(doneList, scan) ELSE doneList )
  /\ scan' = scan + 1
  /\ UNCHANGED << otherVars, poolVars, WEBCAM_CAPTURE, opened, stream, webcam_mode, workers, pc,
                  futures, deque_capture_frames, captured, haltedAt, emitted,
                  dropped, processed, stopRequested, openFailed >>

\* `futures` with the collected units kept
KeepAll(fs, found) == fs

\* line 131: `futures` after futures.remove of every collected unit
Remaining(fs, found) ==
  LET kept == SelectSeq([ i \in 1 .. Len(fs) |-> i ],
                        LAMBDA i : i \notin SeqToSet(found))
  IN [ j \in 1 .. Len(kept) |-> fs[kept[j]] ]

\* lines 128-131: the results of the done futures go to the deque in list
\* order and the futures leave the list
Collect ==
  /\ pc = "scan"
  /\ scan > Len(futures)
  /\ deque_capture_frames' =
       deque_capture_frames \o [ j \in 1 .. Len(doneList) |-> futures[doneList[j]].seq ]
  /\ futures' = Remaining(futures, doneList)
  /\ doneList' = << >>
  /\ scan' = 1
  /\ pc' = "drain"
  /\ UNCHANGED << otherVars, poolVars, WEBCAM_CAPTURE, opened, stream, webcam_mode, workers, captured,
                  haltedAt, emitted, dropped, processed, stopRequested, openFailed >>

\* lines 132-134 and 106-114: the generator yields the head of the deque and
\* start hands it to the sink; in an external mode the write to the ffmpeg
\* pipe may raise, which start answers with clear_webcam_capture
Emit(write_ok) ==
  /\ pc = "drain"
  /\ deque_capture_frames # << >>
  /\ deque_capture_frames' = Tail(deque_capture_frames)
  /\ IF webcam_mode = "inline" \/ write_ok
     THEN /\ emitted' = Append(emitted, Head(deque_capture_frames))
          /\ UNCHANGED << otherVars, poolVars, dropped, WEBCAM_CAPTURE, opened >>
     ELSE /\ dropped' = dropped \cup { Head(deque_capture_frames) }
          /\ clear_webcam_capture
          /\ UNCHANGED emitted
  /\ UNCHANGED << otherVars, poolVars, stream, webcam_mode, workers, pc, futures, scan, doneList,
                  captured, haltedAt, processed, stopRequested, openFailed >>

\* line 132: the deque is empty, back to the loop test
Drained ==
  /\ pc = "drain"
  /\ deque_capture_frames = << >>
  /\ pc' = "loop"
  /\ UNCHANGED << otherVars, poolVars, WEBCAM_CAPTURE, opened, stream, webcam_mode, workers, futures,
                  scan, doneList, deque_capture_frames, captured, haltedAt,
                  emitted, dropped, processed, stopRequested, openFailed >>

\* lines 118-119: leaving the with blocks; ThreadPoolExecutor.__exit__ waits
\* for the units still running, whose results nobody reads, and the
\* generator and start end
Shutdown ==
  /\ pc = "shutdown"
  /\ Unfinished(futures) = {}
  /\ pc' = "done"
  /\ UNCHANGED << otherVars, poolVars, WEBCAM_CAPTURE, opened, stream, webcam_mode, workers, futures,
                  scan, doneList, deque_capture_frames, captured, haltedAt,
                  emitted, dropped, processed, stopRequested, openFailed >>

\* lines 148-150: stop, from the ui thread, while the session runs
Stop ==
  /\ pc \notin { "idle", "done" }
  /\ clear_webcam_capture
  /\ stopRequested' = TRUE
  /\ UNCHANGED << otherVars, poolVars, stream, webcam_mode, workers, pc, futures, scan, doneList,
                  deque_capture_frames, captured, haltedAt, emitted, dropped,
                  processed, openFailed >>

NextStream ==
  \/ \E mode \in WebcamModes, thread_count \in 1 .. MaxWorkers, device_opens \in BOOLEAN :
       Start(mode, thread_count, device_opens)
  \/ Loop
  \/ \E halt \in BOOLEAN : ReadFrame(halt)
  \/ Work
  \/ ScanStep
  \/ Collect
  \/ \E write_ok \in BOOLEAN : Emit(write_ok)
  \/ Drained
  \/ Shutdown
  \/ Stop

(* ---------------------------------------------------------------------- *)
(* Execution provider resolver: inference_manager.find_execution_providers  *)
(* ---------------------------------------------------------------------- *)
\* model_context values the resolver is asked about
ResolverContexts == ModelContexts \cup { "frame_colorizer", "face_enhancer" }

\* line 66: the model contexts named in the test
CoreMLIncompatible == { "age_modifier", "frame_colorizer" }

ExecutionProviderKeys == { "cpu", "cuda", "coreml" }

\* the non-empty provider lists a configuration may hold
ProviderLists ==
  UNION { [ 1 .. n -> ExecutionProviderKeys ] : n \in 1 .. MaxProviders }

\* no call made yet
NoResult == [ key |-> "None", result |-> << >> ]

\* a resolver whose table misses frame_colorizer
find_execution_providers_short(model_context, has_coreml, configured) ==
  IF has_coreml /\ model_context \in { "age_modifier" }
  THEN << "cpu" >>
  ELSE configured

\* lines 65-68: find_execution_providers(model_context); has_coreml is what
\* has_execution_provider('coreml') answers, configured what
\* state_manager.get_item('execution_providers') holds
find_execution_providers(model_context, has_coreml, configured) ==
  IF has_coreml /\ model_context \in CoreMLIncompatible
  THEN << "cpu" >>
  ELSE configured

\* the runtime and the configuration a process may start with
InitProviders ==
  /\ coreml \in BOOLEAN
  /\ execution_providers \in ProviderLists
  /\ resolved = NoResult

\* the resolver before any call, on a runtime without coreml
ProvidersAtRest ==
  /\ coreml = FALSE
  /\ execution_providers = << "cpu" >>
  /\ resolved = NoResult

\* a call of find_execution_providers(model_context)
Resolve(model_context) ==
  /\ resolved' = [ key |-> model_context,
                   result |-> find_execution_providers(model_context, coreml,
                                                       execution_providers) ]
  /\ UNCHANGED << poolVars, streamVars, jobVars, predictorVars, coreml,
                  execution_providers >>

NextProviders == \E model_context \in ResolverContexts : Resolve(model_context)

(* ---------------------------------------------------------------------- *)
(* Job files: job_manager.py                                                *)
(* ---------------------------------------------------------------------- *)
\* line 11: the status directories, in the order they are searched
JOB_STATUSES == << "queued", "completed", "failed" >>
JobStatusSet == { JOB_STATUSES[i] : i \in 1 .. Len(JOB_STATUSES) }
JobIds == { "job_1", "job_2" }

\* a job file (its number of steps), and the absence of a file
NoFile == [ exists |-> FALSE, steps |-> 0 ]
JobFile(steps) == [ exists |-> TRUE, steps |-> steps ]
JobFiles == { NoFile } \cup { JobFile(n) : n \in 0 .. MaxSteps }

\* a path below JOBS_PATH, and None
NoPath == [ status |-> "None", id |-> "None" ]
JobPath(status, job_id) == [ status |-> status, id |-> job_id ]

\* facefusion.filesystem.is_file: False for None and for a missing file
is_file(files, path) == path # NoPath /\ files[path.status][path.id].exists

\* lines 53-60: find_job_ids(job_status)
find_job_ids(files, job_status) ==
  { j \in JobIds : is_file(files, JobPath(job_status, j)) }

\* lines 46-50: get_job_status(job_id), the first directory that has the job
get_job_status(files, job_id) ==
  LET hits == { i \in 1 .. Len(JOB_STATUSES) :
                  job_id \in find_job_ids(files, JOB_STATUSES[i]) }
  IN IF hits = {} THEN "None"
     ELSE JOB_STATUSES[CHOOSE i \in hits : \A j \in hits : i <= j]

\* lines 200-206: suggest_job_path(job_id)
suggest_job_path(files, job_id) ==
  IF ~is_file(files, JobPath("queued", job_id))
  THEN JobPath("queued", job_id)
  ELSE NoPath

\* lines 209-215: resolve_job_path(job_id)
resolve_job_path(files, job_id) ==
  IF get_job_status(files, job_id) = "None"
  THEN NoPath
  ELSE JobPath(get_job_status(files, job_id), job_id)

\* lines 161-168: the files after create_job_file(job_id, job) and what it
\* returns
create_job_file(files, job_id, job) ==
  LET job_path == suggest_job_path(files, job_id)
      written == [ files EXCEPT ![job_path.status][job_path.id] = job ]
  IN IF is_file(files, job_path)
     THEN [ files |-> written, return |-> is_file(written, job_path) ]
     ELSE [ files |-> files, return |-> FALSE ]

\* lines 191-197: the files after delete_job_file(job_id) and what it returns
delete_job_file(files, job_id) ==
  LET job_path == resolve_job_path(files, job_id)
      removed == [ files EXCEPT ![job_path.status][job_path.id] = NoFile ]
  IN IF is_file(files, job_path)
     THEN [ files |-> removed, return |-> ~is_file(removed, job_path) ]
     ELSE [ files |-> files, return |-> FALSE ]

NoReturn ==
  [ op |-> "None", id |-> "None", return |-> FALSE,
    before |-> [ s \in JobStatusSet |-> NoFile ] ]

\* lines 14-22: init_jobs keeps what the directories already hold
\* (os.makedirs with exist_ok)
InitJobs ==
  /\ job_files \in [ JobStatusSet -> [ JobIds -> JobFiles ] ]
  /\ job_return = NoReturn

\* empty status directories
JobsAtRest ==
  /\ job_files = [ s \in JobStatusSet |-> [ j \in JobIds |-> NoFile ] ]
  /\ job_return = NoReturn

\* lines 30-39: create_job(job_id), a job with no steps
create_job(job_id) ==
  LET done == create_job_file(job_files, job_id, JobFile(0))
  IN /\ job_files' = done.files
     /\ job_return' = [ op |-> "create_job", id |-> job_id, return |-> done.return,
                        before |-> [ s \in JobStatusSet |-> job_files[s][job_id] ] ]
     /\ UNCHANGED << poolVars, streamVars, providerVars, predictorVars >>

\* lines 42-43: delete_job(job_id)
delete_job(job_id) ==
  LET done == delete_job_file(job_files, job_id)
  IN /\ job_files' = done.files
     /\ job_return' = [ op |-> "delete_job", id |-> job_id, return |-> done.return,
                        before |-> [ s \in JobStatusSet |-> job_files[s][job_id] ] ]
     /\ UNCHANGED << poolVars, streamVars, providerVars, predictorVars >>

NextJobs ==
  \/ \E job_id \in JobIds : create_job(job_id)
  \/ \E job_id \in JobIds : delete_job(job_id)

(* ---------------------------------------------------------------------- *)
(* Content predictor: predictor.py                                          *)
(* ---------------------------------------------------------------------- *)
\* a thread outside get_predictor
IdlePredictorCall == [ pc |-> "idle", made |-> 0, cleared |-> FALSE ]

\* lines 16-17: PREDICTOR = None and a free lock
InitPredictor ==
  /\ PREDICTOR = 0
  /\ THREAD_LOCK = 0
  /\ predictor_calls = [ t \in Threads |-> IdlePredictorCall ]
  /\ sessions = 0
  /\ clears = 0

\* a thread enters get_predictor()
CallPredictor(t) ==
  /\ predictor_calls[t].pc = "idle"
  /\ predictor_calls' = [ predictor_calls EXCEPT ![t] =
                            [ IdlePredictorCall EXCEPT !.pc = "l35" ] ]
  /\ UNCHANGED << poolVars, streamVars, providerVars, jobVars, PREDICTOR, THREAD_LOCK,
                  sessions, clears >>

\* a lock that lets a second thread in
AcquirePredictorUnguarded(t) ==
  /\ predictor_calls[t].pc = "l35"
  /\ THREAD_LOCK' = t
  /\ predictor_calls' = [ predictor_calls EXCEPT ![t].pc = "l36" ]
  /\ UNCHANGED << poolVars, streamVars, providerVars, jobVars, PREDICTOR, sessions,
                  clears >>

\* line 35: with THREAD_LOCK
AcquirePredictor(t) ==
  /\ predictor_calls[t].pc = "l35"
  /\ THREAD_LOCK = 0
  /\ THREAD_LOCK' = t
  /\ predictor_calls' = [ predictor_calls EXCEPT ![t].pc = "l36" ]
  /\ UNCHANGED << poolVars, streamVars, providerVars, jobVars, PREDICTOR, sessions,
                  clears >>

\* line 36: if PREDICTOR is None; otherwise the with block ends and the
\* lock is freed
CheckPredictor(t) ==
  /\ predictor_calls[t].pc = "l36"
  /\ IF PREDICTOR = 0
     THEN /\ predictor_calls' = [ predictor_calls EXCEPT ![t].pc = "l38" ]
          /\ UNCHANGED THREAD_LOCK
     ELSE /\ predictor_calls' = [ predictor_calls EXCEPT ![t].pc = "l39" ]
          /\ THREAD_LOCK' = 0
  /\ UNCHANGED << poolVars, streamVars, providerVars, jobVars, PREDICTOR, sessions,
                  clears >>

\* lines 37-38: onnxruntime.InferenceSession(...) builds a new session
BuildPredictor(t) ==
  /\ predictor_calls[t].pc = "l38"
  /\ sessions < MaxSessions
  /\ sessions' = sessions + 1
  /\ predictor_calls' = [ predictor_calls EXCEPT ![t].pc = "l38s", ![t].made = sessions + 1 ]
  /\ UNCHANGED << poolVars, streamVars, providerVars, jobVars, PREDICTOR, THREAD_LOCK,
                  clears >>

\* line 38: the assignment to PREDICTOR; the with block ends and the lock
\* is freed
StorePredictor(t) ==
  /\ predictor_calls[t].pc = "l38s"
  /\ PREDICTOR' = predictor_calls[t].made
  /\ THREAD_LOCK' = 0
  /\ predictor_calls' = [ predictor_calls EXCEPT ![t].pc = "l39" ]
  /\ UNCHANGED << poolVars, streamVars, providerVars, jobVars, sessions, clears >>

\* line 39: return PREDICTOR, the global as it is now, read outside the lock
ReturnPredictor(t) ==
  /\ predictor_calls[t].pc = "l39"
  /\ predictor_calls' = [ predictor_calls EXCEPT ![t] = IdlePredictorCall ]
  /\ UNCHANGED << poolVars, streamVars, providerVars, jobVars, PREDICTOR, THREAD_LOCK,
                  sessions, clears >>

\* lines 42-45: clear_predictor(), by any thread, without the lock; the
\* calls in flight have a clear running beside them
clear_predictor ==
  /\ clears < MaxSessions
  /\ PREDICTOR' = 0
  /\ clears' = clears + 1
  /\ predictor_calls' = [ t \in Threads |->
                            IF predictor_calls[t].pc # "idle"
                            THEN [ predictor_calls[t] EXCEPT !.cleared = TRUE ]
                            ELSE predictor_calls[t] ]
  /\ UNCHANGED << poolVars, streamVars, providerVars, jobVars, THREAD_LOCK, sessions >>

NextPredictor ==
  \/ \E t \in Threads : CallPredictor(t)
  \/ \E t \in Threads : AcquirePredictor(t)
  \/ \E t \in Threads : CheckPredictor(t)
  \/ \E t \in Threads : BuildPredictor(t)
  \/ \E t \in Threads : StorePredictor(t)
  \/ \E t \in Threads : ReturnPredictor(t)
  \/ clear_predictor

(* ---------------------------------------------------------------------- *)
(* Specifications                                                           *)
(* ---------------------------------------------------------------------- *)
Init == InitPool /\ InitStream /\ ProvidersAtRest /\ JobsAtRest /\ InitPredictor

\* the resolver on every runtime and configuration
InitResolver ==
  InitPool /\ InitStream /\ InitProviders /\ JobsAtRest /\ InitPredictor

SpecProviders == InitResolver /\ [][NextProviders]_vars

\* get_predictor in every thread, with clear_predictor beside it
SpecPredictor == Init /\ [][NextPredictor]_vars

\* create_job and delete_job on every content of the status directories
InitJobManager ==
  InitPool /\ InitStream /\ ProvidersAtRest /\ InitJobs /\ InitPredictor

SpecJobs == InitJobManager /\ [][NextJobs]_vars

\* get_inference_pool in every thread
NextGet ==
  \/ \E t \in Threads, k \in ModelContexts : Call(t, k)
  \/ \E t \in Threads : Acquire(t)
  \/ \E t \in Threads : Poll(t)
  \/ \E t \in Threads : CheckOther(t)
  \/ \E t \in Threads : Adopt(t)
  \/ \E t \in Threads : CheckOwn(t)
  \/ \E t \in Threads, model_sources \in SUBSET ModelNames : Create(t, model_sources)
  \/ \E t \in Threads : Return(t)

\* acquire and release from both contexts, no verification running
NextPool ==
  \/ NextGet
  \/ \E c \in Contexts, k \in ModelContexts : Clear(c, k)

SpecPool == Init /\ [][NextPool]_vars

\* acquire from both contexts while the collaborator starts and ends
\* verifications; nothing is released
NextAcquire ==
  \/ NextGet
  \/ SetChecking
  \/ EndChecking

SpecAcquire == Init /\ [][NextAcquire]_vars

\* a caller enters get_inference_pool while the handle sets already built
\* and the calls in flight leave room for one more under MaxCreate, so that
\* no call in flight is ever held up by the bound
CallInBudget(t, k) ==
  /\ Cardinality(created) + Cardinality({ u \in Threads : InCall(u) }) < MaxCreate
  /\ Call(t, k)

\* the steps a thread takes on its own once it holds the lock
Step(t) ==
  \/ Poll(t)
  \/ CheckOther(t)
  \/ Adopt(t)
  \/ CheckOwn(t)
  \/ \E model_sources \in SUBSET ModelNames : Create(t, model_sources)
  \/ Return(t)

NextAcquireFair ==
  \/ \E t \in Threads, k \in ModelContexts : CallInBudget(t, k)
  \/ \E t \in Threads : Acquire(t)
  \/ \E t \in Threads : Step(t)
  \/ SetChecking
  \/ EndChecking

\* fair scheduling: a thread that can run does run (the poll wakes every
\* 0.5 s), and a thread waiting for the lock gets it when it is freed again
\* and again
SpecAcquireFair ==
  /\ Init
  /\ [][NextAcquireFair]_vars
  /\ \A t \in Threads : WF_vars(Step(t)) /\ SF_vars(Acquire(t))

\* one streaming session
SpecStream == Init /\ [][NextStream]_vars

(* ---------------------------------------------------------------------- *)
(* Properties of the registry                                               *)
(* ---------------------------------------------------------------------- *)
CreatedFor(k) == { p \in created : p.key = k }

\* C1: for every key, when both contexts hold an entry for it, the two
\* entries are the same handle set
C1_OneLiveHandleSet ==
  \A k \in ModelContexts :
    ( INFERENCE_POOLS["cli"][k] # None /\ INFERENCE_POOLS["ui"][k] # None )
      => INFERENCE_POOLS["cli"][k] = INFERENCE_POOLS["ui"][k]

\* C2: with nothing released, create_inference_pool runs at most once for
\* a key, and a call that reaches its return statement returns that one
\* handle set
C2_CreatedOnce ==
  \A k \in ModelContexts :
    /\ Cardinality(CreatedFor(k)) <= 1
    /\ \A t \in Threads :
         ( calls[t].pc = "l36" /\ calls[t].key = k )
           => ( CreatedFor(k) = { ReturnValue(t) } )

\* C3: no step of get_inference_pool creates a handle set in a state where
\* the verification flag is set
C3_NoCreateWhileChecking ==
  [][ \A t \in Threads :
        ( calls[t].pc = "l34" /\ calls'[t].pc = "l36" ) => ~checking ]_poolVars

\* C4: a step that makes one registry entry absent leaves every other entry
\* (the other context's for the key, and all entries of other keys) as it
\* was; and a call that found its own context holding a handle set while the
\* other context held none returns that handle set and creates nothing
\* (unless its own context released the key meanwhile)
C4_ReleaseKeepsOther ==
  [][ /\ \A c \in Contexts, k \in ModelContexts :
           ( INFERENCE_POOLS[c][k] # None /\ INFERENCE_POOLS'[c][k] = None )
             => \A c2 \in Contexts, k2 \in ModelContexts :
                  ( << c2, k2 >> # << c, k >> )
                    => INFERENCE_POOLS'[c2][k2] = INFERENCE_POOLS[c2][k2]
      /\ \A t \in Threads :
           ( calls[t].pc = "l36" /\ calls'[t].pc = "idle"
             /\ calls[t].own0 # None /\ calls[t].oth0 = None )
             => ( ReturnValue(t) = calls[t].own0 /\ ~calls[t].didCreate ) ]_poolVars

\* C4 witness: a call stands at its return statement with the handle set
\* its context held from the start, the other context holding none for the
\* key while some entry of another key is present
C4_Witness ==
  \E t \in Threads :
    /\ calls[t].pc = "l36"
    /\ calls[t].own0 # None
    /\ calls[t].oth0 = None
    /\ ReturnValue(t) = calls[t].own0
    /\ INFERENCE_POOLS[OtherContext(calls[t].ctx)][calls[t].key] = None
    /\ \E k \in ModelContexts \ { calls[t].key } :
         INFERENCE_POOLS[OtherContext(calls[t].ctx)][k] # None

(* ---------------------------------------------------------------------- *)
(* Properties of the streaming session                                      *)
(* ---------------------------------------------------------------------- *)
EmittedBefore(i) == { emitted[j] : j \in 1 .. i - 1 }

\* C5: a frame reaches the sink only after every frame with a smaller
\* sequence number has reached it or was dropped
C5_SubmissionOrder ==
  \A i \in 1 .. Len(emitted) :
    \A n \in 1 .. emitted[i] - 1 : n \in EmittedBefore(i) \cup dropped

\* C6: when the session has ended, every frame that was submitted to the
\* worker pool has been handed to the sink
C6_InFlightDrained ==
  pc = "done" => \A n \in 1 .. submitted : n \in SeqToSet(emitted) \cup dropped

\* C7: no frame is emitted twice, every emitted frame is the completed
\* unit of a submitted frame, and emitted <= submitted <= captured
C7_NoDuplicateNoFabrication ==
  /\ \A i, j \in 1 .. Len(emitted) : emitted[i] = emitted[j] => i = j
  /\ \A i \in 1 .. Len(emitted) : emitted[i] \in processed /\ emitted[i] \in 1 .. submitted
  /\ Len(emitted) <= submitted
  /\ submitted <= captured

\* C7 witness: two frames have been emitted while a later unit is pending
C7_Witness ==
  /\ Len(emitted) >= 2
  /\ futures # << >>
  /\ captured = 3

\* C8: a session that ended on a halt at frame k (nobody stopped it and no
\* write failed) has emitted exactly k - 1 frames, and frame k was neither
\* submitted nor emitted
C8_HaltEmitsAllEarlier ==
  ( pc = "done" /\ haltedAt > 0 /\ ~stopRequested /\ dropped = {} )
    => /\ Len(emitted) = haltedAt - 1
       /\ haltedAt \notin SeqToSet(emitted)
       /\ captured = haltedAt

\* C9: once a write to the external sink has failed the capture device is
\* released and the global handle absent, no step reads or submits another
\* frame, and the next loop test ends the session
C9_WriteFailureReleases ==
  [][ /\ dropped' # {} => ( WEBCAM_CAPTURE' = "None" /\ ~opened' )
      /\ dropped # {} => ( captured' = captured /\ Len(futures') <= Len(futures) )
      /\ ( dropped # {} /\ pc = "loop" /\ pc' # "loop" ) => pc' = "shutdown" ]_vars

\* C9 witness: a write failed while units were in flight and the session
\* has ended
C9_Witness ==
  /\ webcam_mode \in ExternalModes
  /\ dropped # {}
  /\ ~stopRequested
  /\ captured >= 2
  /\ pc = "done"

\* C10: a session whose capture device did not open ends with the capture
\* handle absent, no frame read or emitted and no sink process held
C10_OpenFailureLeavesNothing ==
  ( pc = "done" /\ openFailed )
    => /\ WEBCAM_CAPTURE = "None"
       /\ captured = 0
       /\ emitted = << >>
       /\ stream = "None"

IsIncreasing(q) == \A i, j \in 1 .. Len(q) : i < j => q[i] < q[j]

\* C11: once stop has been called, no step reads another frame from the
\* device or submits one to the worker pool
C11_StopHonored ==
  [][ stopRequested => ( captured' = captured /\ Len(futures') <= Len(futures) ) ]_vars

\* C15: a session that ran and has ended has released the capture device
\* and dropped the capture handle, has no unit outstanding and holds no
\* sink process
C15_EndedSessionIsFresh ==
  ( pc = "done" /\ ~openFailed )
    => /\ WEBCAM_CAPTURE = "None"
       /\ ~opened
       /\ Unfinished(futures) = {}
       /\ stream = "None"

\* C18: with one worker the frames reach the sink in strictly increasing
\* sequence order, and with any number of workers the frames collected in
\* one loop iteration are queued in increasing sequence order
C18_OneWorkerInOrder ==
  /\ workers = 1 => IsIncreasing(emitted)
  /\ IsIncreasing(deque_capture_frames)

(* ---------------------------------------------------------------------- *)
(* Properties of get_inference_pool and the lock                            *)
(* ---------------------------------------------------------------------- *)
\* the lines of get_inference_pool after the poll
AfterPoll == { "l29", "l30", "l33", "l34", "l36" }

\* C12 as stated: a caller that is still polling the verification flag does
\* not hold the lock, and a caller in the adopt-or-return-or-create sequence
\* holds it
C12_LockAfterPoll ==
  \A t \in Threads :
    /\ calls[t].pc = "l25" => lockOwner # t
    /\ calls[t].pc \in AfterPoll => lockOwner = t

\* C12 amended: the lock is taken before the poll; a caller holds it exactly
\* from the poll to its return, the whole adopt-or-return-or-create
\* sequence included, and nobody else holds it meanwhile
C12_LockHeldFromPoll ==
  \A t \in Threads :
    ( calls[t].pc \in { "l25" } \cup AfterPoll ) <=> ( lockOwner = t )

\* C12 witness: a caller polls a set flag holding the lock while another
\* caller waits for the lock
C12_Witness ==
  \E t, u \in Threads :
    /\ calls[t].pc = "l25"
    /\ checking
    /\ lockOwner = t
    /\ calls[u].pc = "l24"

\* C13: a call returns by the resolution order: the other context's handle
\* set when it held one (nothing created), else its own context's when it
\* held one (nothing created), else a handle set it has just created
C13_ResolutionOrder ==
  [][ \A t \in Threads :
        ( calls[t].pc = "l36" /\ calls'[t].pc = "idle" )
          => IF calls[t].oth0 # None
             THEN ReturnValue(t) = calls[t].oth0 /\ ~calls[t].didCreate
             ELSE IF calls[t].own0 # None
             THEN ReturnValue(t) = calls[t].own0 /\ ~calls[t].didCreate
             ELSE /\ calls[t].didCreate
                  /\ ReturnValue(t) \in created
                  /\ ReturnValue(t).key = calls[t].key ]_poolVars

\* C17: get_inference_pool never returns None, whatever clear_inference_pool
\* calls run beside it
C17_ReturnsPresent ==
  [][ \A t \in Threads :
        ( calls[t].pc = "l36" /\ calls'[t].pc = "idle" ) => ReturnValue(t) # None ]_poolVars

\* a call that has not yet seen the flag clear: waiting for the lock or polling
Pending == { "l24", "l25" }

\* C14: while the verification flag stays set a pending call stays pending
\* (it neither returns nor creates), and when only pending calls are in
\* flight the registry does not change and no handle set is created; and if
\* the flag is eventually clear for good, every call in flight eventually
\* returns
C14_OnlyThePollWaits ==
  /\ [][ ( checking /\ checking' )
           => /\ \A t \in Threads :
                   calls[t].pc \in Pending => calls'[t].pc \in Pending
              /\ ( \A t \in Threads : calls[t].pc \in Pending \cup { "idle" } )
                   => ( created' = created /\ INFERENCE_POOLS' = INFERENCE_POOLS ) ]_vars
  /\ ( <>[](~checking) ) => \A t \in Threads : ( InCall(t) ~> ~InCall(t) )

\* C14 witness: after a handle set was built, a verification starts and a
\* new call polls the set flag
C14_Witness ==
  /\ checking
  /\ created # {}
  /\ \E t \in Threads : calls[t].pc = "l25"

(* ---------------------------------------------------------------------- *)
(* Properties of the execution provider resolver                            *)
(* ---------------------------------------------------------------------- *)
\* C16 as stated: every model context of the table resolves to cpu alone,
\* whatever the runtime and the configured list, and every other one to the
\* configured list
C16_TableForcesCpu ==
  resolved # NoResult
    => resolved.result = ( IF resolved.key \in { "age_modifier", "frame_colorizer" }
                           THEN << "cpu" >>
                           ELSE execution_providers )

\* C16 amended: a model context of the table resolves to cpu alone when the
\* runtime has the coreml provider, whatever the configured list; on a
\* runtime without coreml, and for every other model context, the result is
\* the configured list
C16_TableForcesCpuOnCoreML ==
  resolved # NoResult
    => /\ ( coreml /\ resolved.key \in { "age_modifier", "frame_colorizer" } )
            => resolved.result = << "cpu" >>
       /\ ( ~coreml \/ resolved.key \notin { "age_modifier", "frame_colorizer" } )
            => resolved.result = execution_providers

\* C16 witness: on a runtime with coreml and a configuration that prefers
\* it, frame_colorizer has been forced to cpu
C16_Witness ==
  /\ coreml
  /\ execution_providers = << "coreml", "cpu" >>
  /\ resolved.key = "frame_colorizer"
  /\ resolved.result = << "cpu" >>

(* ---------------------------------------------------------------------- *)
(* Properties of the job files                                              *)
(* ---------------------------------------------------------------------- *)
\* C19: create_job of an id with no file in any status directory returns
\* True and leaves a job file without steps in 'queued', so that the job's
\* status is 'queued'; create_job of an id that has a file in 'queued'
\* returns False and leaves that file as it was
C19_CreateJob ==
  job_return.op = "create_job"
    => /\ ( \A s \in JobStatusSet : ~job_return.before[s].exists )
            => /\ job_return.return
               /\ job_files["queued"][job_return.id] = JobFile(0)
               /\ get_job_status(job_files, job_return.id) = "queued"
       /\ job_return.before["queued"].exists
            => /\ ~job_return.return
               /\ job_files["queued"][job_return.id] = job_return.before["queued"]

(* ---------------------------------------------------------------------- *)
(* Properties of the content predictor                                      *)
(* ---------------------------------------------------------------------- *)
\* C20: a get_predictor call with no clear_predictor beside it returns a
\* session, its own if it built one; PREDICTOR changes only from None to
\* the newest session or, by clear_predictor, to None, so that all calls
\* between two clears return the same session; and a session is built at
\* most once before the first clear and once after each clear
C20_OneSessionPerClear ==
  [][ /\ \A t \in Threads :
           ( predictor_calls[t].pc = "l39" /\ predictor_calls'[t].pc = "idle"
             /\ ~predictor_calls[t].cleared )
             => /\ PREDICTOR # 0
                /\ predictor_calls[t].made # 0 => PREDICTOR = predictor_calls[t].made
      /\ PREDICTOR' # PREDICTOR
           => \/ PREDICTOR = 0 /\ PREDICTOR' = sessions'
              \/ PREDICTOR' = 0 /\ clears' = clears + 1
      /\ sessions' <= clears' + 1 ]_vars

\* C20 witness: after a clear a second session was built by one call, and
\* another call, with no clear beside it, is about to return that session
C20_Witness ==
  /\ clears = 1
  /\ sessions = 2
  /\ PREDICTOR = 2
  /\ \E t \in Threads :
       /\ predictor_calls[t].pc = "l39"
       /\ ~predictor_calls[t].cleared
       /\ predictor_calls[t].made = 0
====
